---- MODULE Spec2Model ----
(***************************************************************************)
(* Record Keeper (src/todo_v2.py): a tree of task rows kept in a           *)
(* QTreeWidget, with ten step cells per row, a progress bar per row, a     *)
(* generated case identifier per row and a JSON file rewritten by          *)
(* save_all.                                                               *)
(*                                                                         *)
(* The handlers are written as operators from a program state (a record    *)
(* s) to the program state they leave, because they call one another:      *)
(* QTreeWidget emits itemChanged for every change of an item's data made   *)
(* while the item is in the tree and the tree's signals are not blocked,   *)
(* and itemChanged is connected to on_edit (line 193).  A setText,         *)
(* setFont, setBackground or setData in a handler therefore runs on_edit   *)
(* in the middle of that handler.  Each action of the model is one whole   *)
(* user operation with every handler it sets off.                          *)
(*                                                                         *)
(* The Last Update text is kept as its day.  Not modelled: the Idle text,   *)
(* the column layout and window geometry, the colours of cells other than  *)
(* the project cell, and the Desc/Nature/Priority/Ref/Dep texts (PIC       *)
(* stands for the columns that only store a text).                         *)
(***************************************************************************)
EXTENDS Integers, Sequences, FiniteSets, TLC

\* ------------------------------------------------------------------ bounds
MaxNodes == 3     \* rows ever created in a run (row ids are 1..MaxNodes)
MaxClicks == 4    \* left and right clicks on step cells in a run
MaxEdits == 2     \* renames, PIC commits, weight edits and clicks, date changes in a run
MaxMoves == 1     \* drag-and-drop moves in a run
MaxReloads == 1   \* refreshes in a run
MaxOps == 2      \* operations other than adding and deleting rows in a run of SpecAll
MaxDay == 6       \* the user picks dates 0..MaxDay; day 0 is a Monday
MaxNights == 1    \* midnights that pass in a run of SpecDays
MaxDeep == 11     \* rows ever created in a run of SpecDeep, whose tree grows downwards

\* ------------------------------------------------------- program constants
COL_STEP_START == 15
COL_STEP_END == COL_STEP_START + 9
LevelCap == 9
STEP_CYCLE == <<"", "WIP", "Done", "N/A">>

StepCols == COL_STEP_START .. COL_STEP_END
Ids == 1 .. MaxNodes
ROOT == 0                      \* the tree's invisible root item

\* ------------------------------------------------------------ input domains
\* Texts are sequences of characters, so that strip, the weight pattern and
\* the case identifier's format and split are computed, not assumed.
ProjectTexts == { <<>>, <<"A">>, <<"B">>, <<" ", "A">> }
PicTexts == { <<>>, <<"P">> }
WeightTexts == { <<>>, <<"0", "d">>, <<"1", "d">>, <<" ", "2", " ", "D", " ">>,
                 <<"5">>, <<"6", "d">>, <<"d">> }
Colors == { "#c1" }            \* the value rand_color returns
ClickCols == { COL_STEP_START + 1, COL_STEP_END }   \* step cells the user clicks
ForeignStatus == "?"           \* a status text that is in no STEP_CYCLE position

VARIABLES
    kids,       \* kids[p]: the ordered children of row p; kids[ROOT]: top-level rows
    items,      \* items[n]: the data of row n (Blank when n is not in the tree)
    seq,        \* RecordKeeper.seq
    color_map,  \* RecordKeeper.color_map: project name -> colour, NoColor when absent
    file,       \* the JSON document last written to data_file
    created,    \* rows created so far; the next row gets id created + 1
    used,       \* how much of each bound the run has used
    today       \* QDate.currentDate()

vars == <<kids, items, seq, color_map, file, created, used, today>>

\* ------------------------------------------------------------------- texts
Digits == <<"0", "1", "2", "3", "4", "5", "6", "7", "8", "9">>
IsSpace(ch) == ch = " "
IsDigit(ch) == \E i \in 1..10 : Digits[i] = ch
DigitVal(ch) == (CHOOSE i \in 1..10 : Digits[i] = ch) - 1

RECURSIVE lstrip(_)
lstrip(t) == IF t # <<>> /\ IsSpace(Head(t)) THEN lstrip(Tail(t)) ELSE t

RECURSIVE rstrip(_)
rstrip(t) ==
    IF t # <<>> /\ IsSpace(t[Len(t)]) THEN rstrip(SubSeq(t, 1, Len(t) - 1)) ELSE t

\* str.strip()
strip(t) == rstrip(lstrip(t))

\* str(n) for n >= 0
RECURSIVE Decimal(_)
Decimal(n) ==
    IF n < 10 THEN <<Digits[n + 1]>> ELSE Decimal(n \div 10) \o <<Digits[(n % 10) + 1]>>

\* f"{n:02d}"
Pad2(n) == IF n < 10 THEN <<"0">> \o Decimal(n) ELSE Decimal(n)

\* f"{proj}_L{lvl}_{suffix}" (lines 366, 602, 698); suffix is already a text
FormatCase(proj, lvl, suffix) ==
    proj \o <<"_", "L">> \o Decimal(lvl) \o <<"_">> \o suffix

\* case.split("_")[-1] (lines 601, 697): the text after the last underscore
RECURSIVE LastField(_)
LastField(t) ==
    IF \E i \in 1..Len(t) : t[i] = "_"
    THEN LastField(SubSeq(t, (CHOOSE i \in 1..Len(t) : t[i] = "_") + 1, Len(t)))
    ELSE t

\* f"L{lvl}" (lines 144 and 257)
LevelText(lvl) == <<"L">> \o Decimal(lvl)

\* ------------------------------------------------------------------- rows
NoPB == -1         \* the row has no item widgets (no buttons, dates, progress bar)
NoColor == ""      \* no background set / no colour_map entry
ProjNames == { strip(t) : t \in ProjectTexts } \ { <<>> }

BlankSteps == [c \in StepCols |-> ""]

\* make_item (lines 254-267).  The item is not in the tree yet, so
\* setup_row_widgets (line 265) binds nothing (setItemWidget needs a valid
\* index) and update_progress (line 266) finds no progress bar.
make_item(project, lvl) ==
    [ proj     |-> project,     \* text of COL_PROJECT
      levelTxt |-> LevelText(lvl),  \* text of COL_LEVEL
      level    |-> lvl,         \* ROLE_LEVEL
      case     |-> <<>>,        \* ROLE_CASE
      pic      |-> <<>>,        \* text of COL_PIC
      weight   |-> <<>>,        \* text of COL_WEIGHT
      start    |-> today,       \* text of COL_START (and the start QDateEdit)
      end      |-> today,       \* text of COL_END (and the end QDateEdit)
      updated  |-> today,       \* the day in the text of COL_LAST_UPDATE
      steps    |-> BlankSteps,  \* texts of Step1..Step10
      pb       |-> NoPB,        \* value of the row's QProgressBar
      font     |-> "unset",     \* FontRole of COL_PROJECT: unset, bold or plain
      bg       |-> NoColor,     \* BackgroundRole of COL_PROJECT
      editable |-> TRUE ]       \* ItemIsEditable

\* What an id holds while no row has it.
Blank ==
    [ proj |-> <<>>, levelTxt |-> LevelText(0), level |-> 0, case |-> <<>>, pic |-> <<>>,
      weight |-> <<>>, start |-> 0, end |-> 0, updated |-> 0, steps |-> BlankSteps,
      pb |-> NoPB,
      font |-> "unset", bg |-> NoColor, editable |-> TRUE ]

\* ------------------------------------------------------------------- tree
Range(q) == { q[i] : i \in 1..Len(q) }

\* iterate_items (lines 332-340): the rows below a list of rows, in preorder
RECURSIVE IterList(_, _)
IterList(k, lst) ==
    IF lst = <<>> THEN <<>>
    ELSE <<Head(lst)>> \o IterList(k, k[Head(lst)]) \o IterList(k, Tail(lst))

iterate_items(k) == IterList(k, k[ROOT])
NodesOf(k) == Range(iterate_items(k))
Subtree(k, n) == Range(IterList(k, <<n>>))

\* QTreeWidgetItem.parent(); ROOT for a top-level row
ParentOf(k, n) == CHOOSE p \in DOMAIN k : n \in Range(k[p])

RECURSIVE Depth(_, _)
Depth(k, n) == IF ParentOf(k, n) = ROOT THEN 0 ELSE 1 + Depth(k, ParentOf(k, n))

Remove(q, n) == SelectSeq(q, LAMBDA x : x # n)
InsertAt(q, i, n) == SubSeq(q, 1, i - 1) \o <<n>> \o SubSeq(q, i, Len(q))

\* The state record the handlers work on.
Cur ==
    [ kids |-> kids, items |-> items, seq |-> seq, color_map |-> color_map,
      file |-> file, created |-> created ]

\* ------------------------------------------------------------ persistence
\* dump_tree (lines 742-753): every column text, ROLE_LEVEL and ROLE_CASE of
\* every row, with the rows' children.  The nested "children" lists are kept
\* as the child lists by row id.
Values(it) ==
    [ proj |-> it.proj, levelTxt |-> it.levelTxt, pic |-> it.pic,
      weight |-> it.weight, start |-> it.start, end |-> it.end, updated |-> it.updated,
      steps |-> it.steps, level |-> it.level, case |-> it.case ]

dump_tree(s) ==
    [ kids |-> s.kids, recs |-> [n \in DOMAIN s.items |-> Values(s.items[n])] ]

\* no data file, for a tree that can hold the rows ids
NoFileOn(ids) ==
    [ exists |-> FALSE, seq |-> 0, colors |-> [p \in ProjNames |-> NoColor],
      records |-> dump_tree([kids |-> [p \in {ROOT} \cup ids |-> <<>>],
                             items |-> [n \in ids |-> Blank]]) ]

NoFile == NoFileOn(Ids)

\* save_all (lines 787-799)
save_all(s) ==
    [s EXCEPT !.file = [ exists |-> TRUE, seq |-> s.seq, colors |-> s.color_map,
                         records |-> dump_tree(s) ]]

\* ---------------------------------------------------------------- progress
\* A progress that leaves N/A out of the count; C1 tells it from Pct.
PctDoneOnly(steps) ==
    LET total_steps == COL_STEP_END - COL_STEP_START + 1
        done == Cardinality({ c \in StepCols : steps[c] = "Done" })
    IN  (done * 100) \div total_steps

Pct(steps) ==
    LET total_steps == COL_STEP_END - COL_STEP_START + 1
        done == Cardinality({ c \in StepCols : steps[c] \in {"Done", "N/A"} })
    IN  (done * 100) \div total_steps

\* update_progress (lines 642-653); int((done / 10) * 100) is exact for
\* done in 0..10 in IEEE doubles
update_progress(s, n) ==
    IF s.items[n].pb = NoPB THEN s ELSE [s EXCEPT !.items[n].pb = Pct(s.items[n].steps)]

\* setup_row_widgets (lines 269-323) on a row that is in the tree: a new
\* progress bar at 0
setup_row_widgets(s, n) == [s EXCEPT !.items[n].pb = 0]

\* A next_seq that does not count; C6 tells it from next_seq.
next_seq_same(s) == s

\* next_seq (line 251)
next_seq(s) == [s EXCEPT !.seq = s.seq + 1]

\* ------------------------------------------------- on_edit and what sets it off
\* touch_last_update (lines 623-626) on a row in the tree with the tree's
\* signals on: a new text in COL_LAST_UPDATE runs on_edit for that column
\* (lines 620-621), which finds the text up to date and saves.
touch_last_update(s, n) ==
    IF s.items[n].updated = today THEN s
    ELSE save_all([s EXCEPT !.items[n].updated = today])

ColorOf(s, p) == IF p \in ProjNames THEN s.color_map[p] ELSE NoColor

\* on_edit, col == COL_PROJECT (lines 595-606), with rc the colour rand_color
\* returns if it is called.  apply_project_background (lines 712-714) changes
\* the BackgroundRole of COL_PROJECT, which emits itemChanged(it, COL_PROJECT)
\* and so runs on_edit again before line 600 reads the old case.
RECURSIVE on_edit_project(_, _, _)
apply_project_background(s, n, p, rc) ==
    LET c == ColorOf(s, p)
    IN  IF c # NoColor /\ s.items[n].bg # c
        THEN on_edit_project([s EXCEPT !.items[n].bg = c], n, rc)
        ELSE s

\* An on_edit that numbers the row anew on every edit of its project cell;
\* C4 tells it from on_edit_project.
on_edit_project_renumbered(s, n, rc) ==
    LET proj == strip(s.items[n].proj)
        lvl == s.items[n].level
        s1 == IF proj # <<>> /\ ColorOf(s, proj) = NoColor
              THEN [s EXCEPT !.color_map[proj] = rc] ELSE s
        s2 == apply_project_background(s1, n, proj, rc)
        s3 == [s2 EXCEPT !.seq = s2.seq + 1]
    IN  save_all(touch_last_update(
            [s3 EXCEPT !.items[n].case = FormatCase(proj, lvl, Pad2(s3.seq))], n))

on_edit_project(s, n, rc) ==
    LET proj == strip(s.items[n].proj)
        lvl == s.items[n].level
        s1 == IF proj # <<>> /\ ColorOf(s, proj) = NoColor
              THEN [s EXCEPT !.color_map[proj] = rc] ELSE s
        s2 == apply_project_background(s1, n, proj, rc)
        old == s2.items[n].case
        s3 == IF old # <<>> THEN s2 ELSE next_seq(s2)
        suffix == IF old # <<>> THEN LastField(old) ELSE Pad2(s3.seq)
    IN  save_all(touch_last_update(
            [s3 EXCEPT !.items[n].case = FormatCase(proj, lvl, suffix)], n))

\* An on_edit that does not save after a step cell changed; C7 tells it from
\* on_edit_step.
on_edit_step_unsaved(s, n) == update_progress(touch_last_update(s, n), n)

\* on_edit, a step column (lines 618-619)
on_edit_step(s, n) == save_all(update_progress(touch_last_update(s, n), n))

\* on_edit, any other column (lines 620-621)
on_edit_other(s, n) == save_all(touch_last_update(s, n))

\* it.setText(c, v) on a step cell of a row in the tree
set_step_text(s, n, c, v) ==
    IF s.items[n].steps[c] = v THEN s
    ELSE on_edit_step([s EXCEPT !.items[n].steps[c] = v], n)

\* mark_bold (lines 688-689): setFont emits itemChanged(it, COL_PROJECT) when
\* the stored FontRole changes
mark_bold(s, n, bold, rc) ==
    LET f == IF bold THEN "bold" ELSE "plain"
    IN  IF s.items[n].font = f THEN s
        ELSE on_edit_project([s EXCEPT !.items[n].font = f], n, rc)

\* A level change that on_edit does not see, so that the case identifier
\* keeps the old level; C5 tells it from set_level.
set_level_unseen(s, n, lvl, rc) ==
    [s EXCEPT !.items[n].level = lvl, !.items[n].levelTxt = LevelText(lvl)]

\* recompute_levels on one row (lines 143-144)
set_level(s, n, lvl, rc) ==
    LET s1 == IF s.items[n].level = lvl THEN s
              ELSE on_edit_project([s EXCEPT !.items[n].level = lvl], n, rc)
    IN  IF s1.items[n].levelTxt = LevelText(lvl) THEN s1
        ELSE on_edit_other([s1 EXCEPT !.items[n].levelTxt = LevelText(lvl)], n)

\* set_levels (lines 142-146) on the rows lst, which all get level lvl; the
\* children of each get min(lvl + 1, 9)
RECURSIVE set_levels(_, _, _, _)
set_levels(s, lst, lvl, rc) ==
    IF lst = <<>> THEN s
    ELSE LET it == Head(lst)
             s1 == set_level(s, it, lvl, rc)
             below == IF lvl + 1 < LevelCap THEN lvl + 1 ELSE LevelCap
             s2 == set_levels(s1, s1.kids[it], below, rc)
         IN  set_levels(s2, Tail(lst), lvl, rc)

\* A tree that never recomputes its levels; C15 tells it from
\* recompute_levels.
recompute_levels_none(s, rc) == s

\* recompute_levels (lines 141-148), called with the tree's signals on
recompute_levels(s, rc) == set_levels(s, s.kids[ROOT], 0, rc)

RECURSIVE apply_backgrounds(_, _, _)
apply_backgrounds(s, lst, rc) ==
    IF lst = <<>> THEN s
    ELSE apply_backgrounds(
             apply_project_background(s, Head(lst), strip(s.items[Head(lst)].proj), rc),
             Tail(lst), rc)

\* apply_all_project_backgrounds (lines 715-717)
apply_all_project_backgrounds(s, rc) == apply_backgrounds(s, iterate_items(s.kids), rc)

\* ------------------------------------------------------------- aggregation
\* The status update_parent_stage_from_children gives a parent at one column
\* from the statuses of its children (lines 391-400).
Aggregate(child_statuses) ==
    IF \A i \in 1..Len(child_statuses) :
           child_statuses[i] # "" => child_statuses[i] \in {"Done", "N/A"}
    THEN "Done"
    ELSE IF \A i \in 1..Len(child_statuses) : child_statuses[i] \in {"", "WIP"}
         THEN ""
         ELSE "WIP"

ChildStatuses(s, p, c) == [i \in 1..Len(s.kids[p]) |-> s.items[s.kids[p][i]].steps[c]]

RECURSIVE agg_cols(_, _, _)
agg_cols(s, p, c) ==
    IF c > COL_STEP_END THEN s
    ELSE agg_cols(set_step_text(s, p, c, Aggregate(ChildStatuses(s, p, c))), p, c + 1)

\* update_parent_stage_from_children (lines 385-402)
update_parent_stage_from_children(s, p) ==
    IF Len(s.kids[p]) = 0 THEN s
    ELSE update_progress(agg_cols(s, p, COL_STEP_START), p)

\* lock_parent_steps (lines 379-383): setFlags and the grey backgrounds emit
\* itemChanged for COL_PROJECT and for the step columns
lock_parent_steps(s, p, rc) ==
    on_edit_step(on_edit_project([s EXCEPT !.items[p].editable = FALSE], p, rc), p)

\* ------------------------------------------------------------ add and delete
\* add_root (lines 342-347)
add_root(s, rc) ==
    LET n == s.created + 1
        s1 == [s EXCEPT !.items[n] = make_item(<<>>, 0),
                        !.kids[ROOT] = Append(@, n),
                        !.created = n]
    IN  save_all(apply_all_project_backgrounds(setup_row_widgets(s1, n), rc))

\* add_child (lines 350-377).  The new row is given no item widgets: make_item
\* binds them before the row is in the tree, and nothing binds them after.
add_child(s, parent, rc) ==
    LET n == s.created + 1
        lvl == s.items[parent].level + 1
        proj == strip(s.items[parent].proj)
        s1 == [s EXCEPT !.items[n] = make_item(proj, lvl),
                        !.kids[parent] = Append(@, n),
                        !.created = n]
        pic_val == strip(s.items[parent].pic)
        s2 == IF pic_val # <<>>
              THEN on_edit_other([s1 EXCEPT !.items[n].pic = pic_val], n) ELSE s1
        s3 == IF proj = <<>> THEN s2
              ELSE LET a == IF ColorOf(s2, proj) = NoColor
                            THEN [s2 EXCEPT !.color_map[proj] = rc] ELSE s2
                       b == next_seq(a)
                       c == [b EXCEPT !.items[n].case = FormatCase(proj, lvl, Pad2(b.seq))]
                   IN  apply_project_background(c, n, proj, rc)
        s4 == mark_bold(s3, parent, TRUE, rc)
        s5 == recompute_levels(s4, rc)
        s6 == lock_parent_steps(s5, parent, rc)
    IN  save_all(update_parent_stage_from_children(s6, parent))

\* del_item (lines 405-409)
del_item(s, it, rc) ==
    LET par == ParentOf(s.kids, it)
        gone == Subtree(s.kids, it)
        s1 == [s EXCEPT !.kids = [p \in DOMAIN s.kids |->
                                     IF p \in gone THEN <<>> ELSE Remove(s.kids[p], it)],
                        !.items = [m \in DOMAIN s.items |->
                                      IF m \in gone THEN Blank ELSE s.items[m]]]
        s2 == IF par # ROOT THEN mark_bold(s1, par, Len(s1.kids[par]) > 0, rc) ELSE s1
    IN  save_all(s2)

\* ------------------------------------------------------------------- clicks
\* A cycle that goes from N/A to WIP, never back to blank; C8 tells it from
\* CycleNext.
CycleNextNoBlank(val) ==
    CASE val = "WIP" -> "Done"
      [] val = "Done" -> "N/A"
      [] OTHER -> "WIP"

\* lines 455 and 521
CycleNext(val) ==
    IF \E i \in 1..Len(STEP_CYCLE) : STEP_CYCLE[i] = val
    THEN STEP_CYCLE[((CHOOSE i \in 1..Len(STEP_CYCLE) : STEP_CYCLE[i] = val) % Len(STEP_CYCLE)) + 1]
    ELSE "WIP"

\* on_click, a step column (lines 453-460)
on_click_step(s, it, col) ==
    LET nxt == CycleNext(s.items[it].steps[col])
    IN  save_all(update_progress(touch_last_update(set_step_text(s, it, col, nxt), it), it))

\* A right click that leaves the earlier steps alone; C14 tells it from
\* fill_steps.
fill_steps_none(s, it, c, col, nxt) == s

\* the loop of lines 526-528
RECURSIVE fill_steps(_, _, _, _, _)
fill_steps(s, it, c, col, nxt) ==
    IF c >= col THEN s
    ELSE fill_steps(set_step_text(s, it, c, nxt), it, c + 1, col, nxt)

\* on_right_click_step (lines 515-535)
on_right_click_step(s, it, col) ==
    IF ~(COL_STEP_START <= col /\ col <= COL_STEP_END) THEN s
    ELSE LET nxt == CycleNext(s.items[it].steps[col])
             s1 == set_step_text(s, it, col, nxt)
             s2 == fill_steps(s1, it, COL_STEP_START, col, nxt)
             s3 == save_all(update_progress(touch_last_update(s2, it), it))
             parent == ParentOf(s3.kids, it)
         IN  IF parent # ROOT THEN update_parent_stage_from_children(s3, parent) ELSE s3

\* --------------------------------------------------------- weight and dates
NoWeight == -1     \* parse_weight_days returned None

RECURSIVE TakeDigits(_)
TakeDigits(t) ==
    IF t # <<>> /\ IsDigit(Head(t)) THEN <<Head(t)>> \o TakeDigits(Tail(t)) ELSE <<>>

RECURSIVE ToInt(_)
ToInt(ds) ==
    IF ds = <<>> THEN 0 ELSE 10 * ToInt(SubSeq(ds, 1, Len(ds) - 1)) + DigitVal(ds[Len(ds)])

\* parse_weight_days (lines 581-584): re.match(r"\s*(\d+)\s*[dD]\s*$", text)
parse_weight_days(text) ==
    LET a == lstrip(text)
        ds == TakeDigits(a)
        b == lstrip(SubSeq(a, Len(ds) + 1, Len(a)))
    IN  IF text = <<>> THEN NoWeight
        ELSE IF ds # <<>> /\ b # <<>> /\ Head(b) \in {"d", "D"} /\ lstrip(Tail(b)) = <<>>
             THEN ToInt(ds)
             ELSE NoWeight

\* QDate.dayOfWeek(): 1 is Monday, 7 is Sunday; day 0 is a Monday
dayOfWeek(d) == (d % 7) + 1

\* the loop of add_workdays (lines 588-590)
RECURSIVE workdays_loop(_, _, _)
workdays_loop(d, step, remaining) ==
    IF remaining > 0
    THEN LET d2 == d + step
         IN  workdays_loop(d2, step, IF dayOfWeek(d2) <= 5 THEN remaining - 1 ELSE remaining)
    ELSE d

\* add_workdays (lines 586-591)
add_workdays(qdate, n) ==
    workdays_loop(qdate, IF n >= 0 THEN 1 ELSE -1, IF n >= 0 THEN n ELSE -n)

HasWidgets(s, n) == s.items[n].pb # NoPB

\* on_date_changed (lines 568-579), after the date widget took its new date.
\* ee.setDate emits dateChanged, which runs on_date_changed(it, False) and
\* writes the same texts.
on_date_changed(s, it, is_start) ==
    IF ~HasWidgets(s, it) THEN s
    ELSE LET w == parse_weight_days(s.items[it].weight)
             s1 == IF is_start /\ w # NoWeight
                   THEN [s EXCEPT !.items[it].end = add_workdays(s.items[it].start, w)]
                   ELSE s
         IN  save_all(touch_last_update(s1, it))

\* on_edit, col == COL_WEIGHT (lines 611-617)
on_edit_weight(s, it) ==
    LET w == parse_weight_days(s.items[it].weight)
        s1 == IF HasWidgets(s, it) /\ w # NoWeight
              THEN [s EXCEPT !.items[it].end = add_workdays(s.items[it].start, w)]
              ELSE s
    IN  save_all(touch_last_update(s1, it))

\* on_click, col == COL_WEIGHT (lines 463-470)
on_click_weight(s, it) ==
    LET w == parse_weight_days(s.items[it].weight)
        e == add_workdays(s.items[it].start, w)
    IN  IF HasWidgets(s, it) /\ w # NoWeight
        THEN save_all(IF e = s.items[it].end THEN s
                      ELSE touch_last_update([s EXCEPT !.items[it].end = e], it))
        ELSE s

\* commit_combo (lines 553-558) for the PIC column
commit_combo(s, it, text) ==
    LET txt == strip(text)
    IN  save_all(touch_last_update(
            IF s.items[it].pic = txt THEN s
            ELSE on_edit_other([s EXCEPT !.items[it].pic = txt], it), it))

\* ------------------------------------------------------------ drag and drop
RECURSIVE update_cases(_, _)
update_cases(s, lst) ==
    IF lst = <<>> THEN s
    ELSE LET it == Head(lst)
             proj == strip(s.items[it].proj)
             lvl == s.items[it].level
             case == s.items[it].case
             s1 == IF proj # <<>> /\ case # <<>>
                   THEN [s EXCEPT !.items[it].case = FormatCase(proj, lvl, LastField(case))]
                   ELSE s
         IN  update_cases(s1, Tail(lst))

\* after_drop (lines 691-701)
after_drop(s) == save_all(update_cases(s, iterate_items(s.kids)))

\* dropEvent (lines 112-116) for an internal move of row it to position i under
\* target: QTreeWidget takes the row out and inserts it again, which destroys
\* the item widgets of the row and of the rows below it.
dropEvent(s, it, target, i, rc) ==
    LET moved == Subtree(s.kids, it)
        k1 == [p \in DOMAIN s.kids |-> Remove(s.kids[p], it)]
        k2 == [k1 EXCEPT ![target] = InsertAt(@, i, it)]
        s1 == [s EXCEPT !.kids = k2,
                        !.items = [m \in DOMAIN s.items |-> IF m \in moved
                                                 THEN [s.items[m] EXCEPT !.pb = NoPB]
                                                 ELSE s.items[m]]]
    IN  after_drop(recompute_levels(s1, rc))

\* ------------------------------------------------------------------ loading
\* One pass of restore_tree's loop (lines 759-778) for a saved row d: the
\* texts, level and case of d, new widgets, and the progress of its steps.
restore_item(d) ==
    [make_item(d.proj, d.level) EXCEPT
        !.proj = d.proj, !.levelTxt = d.levelTxt, !.pic = d.pic, !.weight = d.weight,
        !.start = d.start, !.end = d.end, !.updated = d.updated, !.steps = d.steps,
        !.case = d.case, !.pb = Pct(d.steps)]

\* restore_tree blocks the tree's signals on entry and unblocks them on exit
\* (lines 756, 784), so a nested call leaves them unblocked for the rest of
\* the caller's loop: a row restored after a sibling that has children is
\* restored with signals on, and lines 775-777 then run on_edit, which saves.
\* Setting a date widget to a date other than today runs on_date_changed
\* (lines 771-772), which saves as well.  Both call touch_last_update first.
SavesWhileRestored(doc, n) ==
    LET p == ParentOf(doc.kids, n)
        idx == CHOOSE i \in 1..Len(doc.kids[p]) : doc.kids[p][i] = n
    IN  \/ \E j \in 1..(idx - 1) : doc.kids[doc.kids[p][j]] # <<>>
        \/ doc.recs[n].start # today
        \/ doc.recs[n].end # today

\* The tree as far as restore_tree has built it when row order[j] is restored.
PartlyRestored(s, doc, order, j) ==
    LET have == { order[i] : i \in 1..j }
    IN  [s EXCEPT !.kids = [p \in DOMAIN doc.kids |->
                               IF p = ROOT \/ p \in have
                               THEN SelectSeq(doc.kids[p], LAMBDA x : x \in have)
                               ELSE <<>>],
                  !.items = [n \in DOMAIN s.items |->
                      IF n \notin have THEN Blank
                      ELSE IF SavesWhileRestored(doc, n)
                           THEN [restore_item(doc.recs[n]) EXCEPT !.updated = today]
                           ELSE restore_item(doc.recs[n])]]

\* load_all (lines 801-823) with restore_tree (lines 755-785)
load_all(s, rc) ==
    IF ~s.file.exists THEN s
    ELSE LET doc == s.file.records
             order == iterate_items(doc.kids)
             s1 == [s EXCEPT !.seq = s.file.seq, !.color_map = s.file.colors]
             saving == { j \in 1..Len(order) : SavesWhileRestored(doc, order[j]) }
             last == CHOOSE j \in saving : \A i \in saving : i <= j
             s2 == IF saving = {} THEN s1
                   ELSE [s1 EXCEPT !.file = save_all(PartlyRestored(s1, doc, order, last)).file]
             s3 == PartlyRestored(s2, doc, order, Len(order))
         IN  recompute_levels(s3, rc)

\* rebind_all_row_widgets (lines 326-329)
rebind_all_row_widgets(s) ==
    [s EXCEPT !.items = [n \in DOMAIN s.items |->
        IF n \in NodesOf(s.kids) /\ s.items[n].pb = NoPB
        THEN [s.items[n] EXCEPT !.pb = 0] ELSE s.items[n]]]

\* refresh_all_progress_idle (lines 637-640)
refresh_all_progress_idle(s) ==
    [s EXCEPT !.items = [n \in DOMAIN s.items |->
        IF n \in NodesOf(s.kids) THEN update_progress(s, n).items[n] ELSE s.items[n]]]

\* what __init__ (lines 198-202) and refresh (lines 827-831) do after saving
reload(s, rc) ==
    refresh_all_progress_idle(
        apply_all_project_backgrounds(rebind_all_row_widgets(load_all(s, rc)), rc))

\* refresh (lines 825-832)
refresh(s, rc) == reload(save_all(s), rc)

\* --------------------------------------------------------------- the start
\* the object before load_all: no rows, seq = 0, no colours (lines 156-157)
EmptyStateOn(ids, f) ==
    [ kids |-> [p \in {ROOT} \cup ids |-> <<>>], items |-> [n \in ids |-> Blank],
      seq |-> 0, color_map |-> [p \in ProjNames |-> NoColor], file |-> f,
      created |-> Cardinality(NodesOf(f.records.kids)) ]

EmptyState(f) == EmptyStateOn(Ids, f)

\* A records.json written by hand: one top-level row whose Step10 holds a text
\* that is no status.
ForeignFile ==
    [ exists |-> TRUE, seq |-> 0, colors |-> [p \in ProjNames |-> NoColor],
      records |-> [ kids |-> [p \in {ROOT} \cup Ids |-> IF p = ROOT THEN <<1>> ELSE <<>>],
                    recs |-> [n \in Ids |->
                        IF n = 1
                        THEN [Values(Blank) EXCEPT !.steps[COL_STEP_END] = ForeignStatus]
                        ELSE Values(Blank)] ] ]

\* RecordKeeper.__init__ (lines 151-202) with data_file holding f
Construct(f) == reload(EmptyState(f), CHOOSE c \in Colors : TRUE)

InitWith(f, d) ==
    /\ today = d
    /\ kids = Construct(f).kids
    /\ items = Construct(f).items
    /\ seq = Construct(f).seq
    /\ color_map = Construct(f).color_map
    /\ file = Construct(f).file
    /\ created = Construct(f).created
    /\ used = [clicks |-> 0, edits |-> 0, moves |-> 0, reloads |-> 0]

\* no records.json yet: the empty tree with seq = 0
Init == InitWith(NoFile, 0)

\* ----------------------------------------------------------------- actions
Commit(s) ==
    /\ kids' = s.kids
    /\ items' = s.items
    /\ seq' = s.seq
    /\ color_map' = s.color_map
    /\ file' = s.file
    /\ created' = s.created

Nodes == NodesOf(kids)

\* the Add Root button
AddRoot ==
    /\ created < MaxNodes
    /\ \E rc \in Colors : Commit(add_root(Cur, rc))
    /\ UNCHANGED <<used, today>>

\* the "+" button of row p, which the row has when it has item widgets
AddChild(p) ==
    /\ created < MaxNodes
    /\ p \in Nodes
    /\ HasWidgets(Cur, p)
    /\ \E rc \in Colors : Commit(add_child(Cur, p, rc))
    /\ UNCHANGED <<used, today>>

\* the "-" button of row n
DelItem(n) ==
    /\ n \in Nodes
    /\ HasWidgets(Cur, n)
    /\ \E rc \in Colors : Commit(del_item(Cur, n, rc))
    /\ UNCHANGED <<used, today>>

\* a left click on step cell c of row n
LeftClick(n, c) ==
    /\ used.clicks < MaxClicks
    /\ n \in Nodes
    /\ Commit(on_click_step(Cur, n, c))
    /\ used' = [used EXCEPT !.clicks = @ + 1]
    /\ UNCHANGED today

\* a right click on cell c of row n
RightClick(n, c) ==
    /\ used.clicks < MaxClicks
    /\ n \in Nodes
    /\ Commit(on_right_click_step(Cur, n, c))
    /\ used' = [used EXCEPT !.clicks = @ + 1]
    /\ UNCHANGED today

\* the user types a new project text into row n
Rename(n, t) ==
    /\ used.edits < MaxEdits
    /\ n \in Nodes
    /\ items[n].editable
    /\ t # items[n].proj
    /\ \E rc \in Colors :
           Commit(on_edit_project([Cur EXCEPT !.items[n].proj = t], n, rc))
    /\ used' = [used EXCEPT !.edits = @ + 1]
    /\ UNCHANGED today

\* the user picks or types a PIC in the combo box of row n
CommitPic(n, t) ==
    /\ used.edits < MaxEdits
    /\ n \in Nodes
    /\ Commit(commit_combo(Cur, n, t))
    /\ used' = [used EXCEPT !.edits = @ + 1]
    /\ UNCHANGED today

\* the user types a new weight text into row n
EditWeight(n, t) ==
    /\ used.edits < MaxEdits
    /\ n \in Nodes
    /\ items[n].editable
    /\ t # items[n].weight
    /\ Commit(on_edit_weight([Cur EXCEPT !.items[n].weight = t], n))
    /\ used' = [used EXCEPT !.edits = @ + 1]
    /\ UNCHANGED today

\* a left click on the weight cell of row n
ClickWeight(n) ==
    /\ used.edits < MaxEdits
    /\ n \in Nodes
    /\ Commit(on_click_weight(Cur, n))
    /\ used' = [used EXCEPT !.edits = @ + 1]
    /\ UNCHANGED today

\* the user picks a new start date in the date editor of row n
ChangeStart(n, d) ==
    /\ used.edits < MaxEdits
    /\ n \in Nodes
    /\ HasWidgets(Cur, n)
    /\ d # items[n].start
    /\ Commit(on_date_changed([Cur EXCEPT !.items[n].start = d], n, TRUE))
    /\ used' = [used EXCEPT !.edits = @ + 1]
    /\ UNCHANGED today

\* the user picks a new end date in the date editor of row n
ChangeEnd(n, d) ==
    /\ used.edits < MaxEdits
    /\ n \in Nodes
    /\ HasWidgets(Cur, n)
    /\ d # items[n].end
    /\ Commit(on_date_changed([Cur EXCEPT !.items[n].end = d], n, FALSE))
    /\ used' = [used EXCEPT !.edits = @ + 1]
    /\ UNCHANGED today

\* the user drags row n to position i under target
Drop(n, target, i) ==
    /\ used.moves < MaxMoves
    /\ n \in Nodes
    /\ target \in ({ROOT} \cup Nodes) \ Subtree(kids, n)
    /\ i \in 1..(Len(Remove(kids[target], n)) + 1)
    /\ \E rc \in Colors : Commit(dropEvent(Cur, n, target, i, rc))
    /\ used' = [used EXCEPT !.moves = @ + 1]
    /\ UNCHANGED today

\* the Refresh button
Refresh ==
    /\ used.reloads < MaxReloads
    /\ \E rc \in Colors : Commit(refresh(Cur, rc))
    /\ used' = [used EXCEPT !.reloads = @ + 1]
    /\ UNCHANGED today

\* ---------------------------------------------------------- specifications
\* Rows, project names and case identifiers.
Next ==
    \/ AddRoot
    \/ \E p \in Ids : AddChild(p)
    \/ \E n \in Ids : DelItem(n)
    \/ \E n \in Ids, t \in ProjectTexts : Rename(n, t)
    \/ \E n \in Ids, target \in {ROOT} \cup Ids, i \in 1..MaxNodes : Drop(n, target, i)
    \/ Refresh

Spec == Init /\ [][Next]_vars

\* Rows and their step cells; the program may start from a hand-written file.
InitSteps == \E f \in {NoFile, ForeignFile} : InitWith(f, 0)

NextSteps ==
    \/ AddRoot
    \/ \E p \in Ids : AddChild(p)
    \/ \E n \in Ids : DelItem(n)
    \/ \E n \in Ids, c \in ClickCols : LeftClick(n, c)
    \/ \E n \in Ids, c \in ClickCols \cup {COL_STEP_START - 1} : RightClick(n, c)
    \/ Refresh

SpecSteps == InitSteps /\ [][NextSteps]_vars

\* Rows, their weights and their dates; the program may start on any weekday.
InitDates == \E d \in 0..6 : InitWith(NoFile, d)

NextDates ==
    \/ AddRoot
    \/ \E p \in Ids : AddChild(p)
    \/ \E n \in Ids, t \in WeightTexts : EditWeight(n, t)
    \/ \E n \in Ids : ClickWeight(n)
    \/ \E n \in Ids, d \in 0..MaxDay : ChangeStart(n, d)
    \/ \E n \in Ids, d \in 0..MaxDay : ChangeEnd(n, d)

SpecDates == InitDates /\ [][NextDates]_vars

\* Every operation at once, in short runs.
TotalUsed == used.clicks + used.edits + used.moves + used.reloads

NextAll ==
    \/ TotalUsed < MaxOps /\ AddRoot
    \/ TotalUsed < MaxOps /\ \E p \in Ids : AddChild(p)
    \/ TotalUsed < MaxOps /\ \E n \in Ids : DelItem(n)
    \/ TotalUsed < MaxOps /\ \E n \in Ids, c \in ClickCols : LeftClick(n, c)
    \/ TotalUsed < MaxOps /\ \E n \in Ids, c \in ClickCols \cup {COL_STEP_START - 1} : RightClick(n, c)
    \/ TotalUsed < MaxOps /\ \E n \in Ids, t \in ProjectTexts : Rename(n, t)
    \/ TotalUsed < MaxOps /\ \E n \in Ids, t \in PicTexts : CommitPic(n, t)
    \/ TotalUsed < MaxOps /\ \E n \in Ids, t \in WeightTexts : EditWeight(n, t)
    \/ TotalUsed < MaxOps /\ \E n \in Ids : ClickWeight(n)
    \/ TotalUsed < MaxOps /\ \E n \in Ids, d \in 0..MaxDay : ChangeStart(n, d)
    \/ TotalUsed < MaxOps /\ \E n \in Ids, d \in 0..MaxDay : ChangeEnd(n, d)
    \/ TotalUsed < MaxOps /\ \E n \in Ids, target \in {ROOT} \cup Ids, i \in 1..MaxNodes : Drop(n, target, i)
    \/ TotalUsed < MaxOps /\ Refresh

SpecAll == Init /\ [][NextAll]_vars

\* midnight passes while the program runs
NextDay ==
    /\ today < MaxNights
    /\ today' = today + 1
    /\ UNCHANGED <<kids, items, seq, color_map, file, created, used>>

\* Every operation in short runs, over several days.
NextDays ==
    \/ NextAll
    \/ NextDay

SpecDays == Init /\ [][NextDays]_vars

\* A tree that grows downwards, deep enough for the level cap: Add Root, "+"
\* on the row made last, "-" on the row made last, Refresh and one drop.
DeepIds == 1 .. MaxDeep

InitDeep ==
    LET s == reload(EmptyStateOn(DeepIds, NoFileOn(DeepIds)), CHOOSE c \in Colors : TRUE)
    IN  /\ today = 0
        /\ kids = s.kids
        /\ items = s.items
        /\ seq = s.seq
        /\ color_map = s.color_map
        /\ file = s.file
        /\ created = s.created
        /\ used = [clicks |-> 0, edits |-> 0, moves |-> 0, reloads |-> 0]

\* the "+" button of the row made last
Deepen ==
    /\ created < MaxDeep
    /\ created \in Nodes
    /\ HasWidgets(Cur, created)
    /\ \E rc \in Colors : Commit(add_child(Cur, created, rc))
    /\ UNCHANGED <<used, today>>

\* the Refresh button, as often as the user likes
Reload ==
    /\ \E rc \in Colors : Commit(refresh(Cur, rc))
    /\ UNCHANGED <<used, today>>

NextDeep ==
    \/ AddRoot
    \/ Deepen
    \/ DelItem(created)
    \/ \E n \in DeepIds, target \in {ROOT} \cup DeepIds, i \in 1..MaxNodes : Drop(n, target, i)
    \/ Reload

SpecDeep == InitDeep /\ [][NextDeep]_vars

\* ------------------------------------------------------------------ claims
CurNext ==
    [ kids |-> kids', items |-> items', seq |-> seq', color_map |-> color_map',
      file |-> file', created |-> created' ]

DoneCount(n) == Cardinality({ c \in StepCols : items[n].steps[c] \in {"Done", "N/A"} })

\* C1: in every state, so after every operation that changes step statuses
\* (left click, right-click fill, parent aggregation, restore from JSON), the
\* progress bar of every row that has one shows 10 times the number of its ten
\* steps that are Done or N/A; blank and WIP steps (and texts that are no
\* status) count for nothing.
C1_ProgressMatchesSteps ==
    \A n \in Nodes :
        items[n].pb # NoPB =>
            /\ items[n].pb = 10 * DoneCount(n)
            /\ items[n].pb \in { 10 * k : k \in 0..10 }

\* a row whose progress counts N/A steps, beside a parent that took its steps
\* and progress from its children
C1_Witness ==
    \E n \in Nodes, p \in Nodes :
        /\ items[n].pb = 20
        /\ items[n].steps[COL_STEP_START + 1] = "N/A"
        /\ kids[p] # <<>>
        /\ items[p].pb = 100

\* The status the spec gives a parent at one column: v is the parent's status,
\* cs the statuses of its children.
ClaimedStage(cs, v) ==
    LET allDone == \A i \in 1..Len(cs) : cs[i] # "" => cs[i] \in {"Done", "N/A"}
        allIdle == \A i \in 1..Len(cs) : cs[i] \in {"", "WIP"}
    IN  /\ allDone => v = "Done"
        /\ allIdle => v = ""
        /\ (~allDone /\ ~allIdle) => v = "WIP"
        /\ v # "N/A"

\* a step in which update_parent_stage_from_children ran on p
Aggregated(p) ==
    \/ AddChild(p)
    \/ \E n \in Ids, c \in ClickCols :
           /\ RightClick(n, c)
           /\ n \in Nodes
           /\ ParentOf(kids, n) = p

\* C2: whenever update_parent_stage_from_children has run on a row p with at
\* least one child, p's status at every step column is Done if every non-blank
\* child status there is Done or N/A, blank if every child status there is
\* blank or WIP, and WIP otherwise, and it is never N/A.
C2_AggregationAsClaimed ==
    [][\A p \in Ids :
          Aggregated(p) =>
              \A c \in StepCols :
                  ClaimedStage(ChildStatuses(CurNext, p, c), items'[p].steps[c])]_vars

\* C3: after a left click or a right click on a step cell of a row that has a
\* parent, the parent's status at every step column is the aggregation of its
\* children's statuses there, and the parent's progress matches its statuses.
C3_ParentRecomputedOnClick ==
    [][\A n \in Ids, c \in ClickCols :
          ((LeftClick(n, c) \/ RightClick(n, c)) /\ ParentOf(kids, n) # ROOT) =>
              LET p == ParentOf(kids, n)
              IN  /\ \A col \in StepCols :
                         items'[p].steps[col] = Aggregate(ChildStatuses(CurNext, p, col))
                  /\ items'[p].pb # NoPB => items'[p].pb = Pct(items'[p].steps)]_vars

\* The cycle blank -> WIP -> Done -> N/A -> blank, written out.
Successor(v) ==
    CASE v = "" -> "WIP"
      [] v = "WIP" -> "Done"
      [] v = "Done" -> "N/A"
      [] v = "N/A" -> ""
      [] OTHER -> "WIP"

\* C8: a left click on a step cell moves that cell one position on in the cycle
\* blank -> WIP -> Done -> N/A -> blank (a text outside the cycle becomes WIP)
\* and changes no other step cell of the row; four clicks bring a status of
\* the cycle back to itself.
C8_LeftClickCycles ==
    /\ [][\A n \in Ids, c \in ClickCols :
             LeftClick(n, c) =>
                 /\ items'[n].steps[c] = Successor(items[n].steps[c])
                 /\ \A d \in StepCols \ {c} : items'[n].steps[d] = items[n].steps[d]]_vars
    /\ [](\A n \in Nodes, c \in StepCols :
             LET v == items[n].steps[c]
             IN  v \in {"", "WIP", "Done", "N/A"} =>
                     CycleNext(CycleNext(CycleNext(CycleNext(v)))) = v)

\* a cell that three clicks took from blank to N/A, beside one that was not
\* clicked
C8_Witness ==
    \E n \in Nodes :
        /\ items[n].steps[COL_STEP_END] = "N/A"
        /\ items[n].steps[COL_STEP_START + 1] = ""
        /\ used.clicks = 3

\* C10: add_child on a row without children leaves the new child with ten
\* blank steps and the parent with ten blank steps and progress 0, as the
\* aggregation of children that are all blank is blank.
C10_BlankChildrenBlankParent ==
    [][\A p \in Ids :
          (AddChild(p) /\ kids[p] = <<>>) =>
              /\ \A c \in StepCols : items'[created'].steps[c] = ""
              /\ \A c \in StepCols : items'[p].steps[c] = ""
              /\ items'[p].pb = 0]_vars

HasCase(n) == items[n].case # <<>>
SuffixOf(n) == LastField(items[n].case)

\* C4: a row that has a case identifier keeps its numeric suffix through every
\* operation that keeps the row (rename, drag and drop, adding and deleting
\* other rows, refresh), and neither a rename of such a row nor a move of rows
\* that all have case identifiers draws a sequence number.
C4_SuffixKept ==
    /\ [][\A n \in Ids :
             (n \in Nodes /\ n \in NodesOf(kids') /\ HasCase(n)) =>
                 LastField(items'[n].case) = SuffixOf(n)]_vars
    /\ [][\A n \in Ids, t \in ProjectTexts :
             (Rename(n, t) /\ HasCase(n)) => seq' = seq]_vars
    /\ [][\A n \in Ids, target \in {ROOT} \cup Ids, i \in 1..MaxNodes :
             (Drop(n, target, i) /\ \A m \in Subtree(kids, n) : HasCase(m)) =>
                 seq' = seq]_vars

\* a row that was named, moved one level down, renamed and reloaded, and still
\* carries the first sequence number
C4_Witness ==
    \E n \in Nodes :
        /\ items[n].case = <<"B", "_", "L", "1", "_", "0", "1">>
        /\ used.edits = 2
        /\ used.moves = 1
        /\ used.reloads = 1

\* C5: in every state, so after every add_child, rename and drag and drop,
\* the case identifier of every row that has one is "{project}_L{level}_{suffix}"
\* with the row's project name (its project text without surrounding blanks)
\* and the row's level as they are now.
C5_CaseFollowsProjectAndLevel ==
    \A n \in Nodes :
        HasCase(n) =>
            items[n].case =
                strip(items[n].proj) \o <<"_", "L">> \o Decimal(items[n].level)
                    \o <<"_">> \o SuffixOf(n)

\* a child that got its identifier from add_child and was renamed, under a
\* parent of another name
C5_Witness ==
    \E p \in Nodes, n \in Nodes :
        /\ n \in Range(kids[p])
        /\ items[p].case = <<"A", "_", "L", "0", "_", "0", "1">>
        /\ items[n].case = <<"B", "_", "L", "1", "_", "0", "2">>
        /\ items[n].proj = <<"B">>

\* C6: from the empty tree with seq = 0, no two rows of the tree have the same
\* case-identifier suffix, every suffix is a number from 1 to seq, and seq never
\* decreases.
C6_SuffixesUnique ==
    /\ [](\A n \in Nodes, m \in Nodes :
             (HasCase(n) /\ HasCase(m) /\ n # m) => SuffixOf(n) # SuffixOf(m))
    /\ [](\A n \in Nodes :
             HasCase(n) => \E k \in 1..seq : SuffixOf(n) = Pad2(k))
    /\ [][seq' >= seq]_vars

\* the row numbered 01 was deleted; the tree holds a row numbered 02 and none
\* numbered 01, also after a reload
C6_Witness ==
    /\ seq = 2
    /\ used.reloads = 1
    /\ \E n \in Nodes : HasCase(n) /\ SuffixOf(n) = <<"0", "2">>
    /\ \A n \in Nodes : HasCase(n) => SuffixOf(n) # <<"0", "1">>

\* what the JSON document holds of row n when it was written from the tree
\* as it is after the step
SavedRow(n) ==
    [ proj |-> items'[n].proj, levelTxt |-> items'[n].levelTxt, pic |-> items'[n].pic,
      weight |-> items'[n].weight, start |-> items'[n].start, end |-> items'[n].end,
      updated |-> items'[n].updated, steps |-> items'[n].steps, level |-> items'[n].level, case |-> items'[n].case ]

\* a step of one of the mutating operations
Mutation ==
    \/ AddRoot
    \/ \E p \in Ids : AddChild(p)
    \/ \E n \in Ids : DelItem(n)
    \/ \E n \in Ids, c \in ClickCols : LeftClick(n, c) \/ RightClick(n, c)
    \/ \E n \in Ids, t \in ProjectTexts : Rename(n, t)
    \/ \E n \in Ids, t \in PicTexts : CommitPic(n, t)
    \/ \E n \in Ids, t \in WeightTexts : EditWeight(n, t)
    \/ \E n \in Ids, d \in 0..MaxDay : ChangeStart(n, d) \/ ChangeEnd(n, d)
    \/ \E n \in Ids, target \in {ROOT} \cup Ids, i \in 1..MaxNodes : Drop(n, target, i)

\* C7: after every mutating operation (add_root, add_child, del_item, left
\* click, right-click fill, combo commit, date change, cell edit, drag and
\* drop) the document last written to the file is the tree as it is: the same
\* rows under the same parents in the same order with the same texts, levels
\* and case identifiers, the same seq and the same colours.
C7_SavedOnEveryMutation ==
    [][Mutation =>
          /\ file'.exists
          /\ file'.seq = seq'
          /\ file'.colors = color_map'
          /\ file'.records.kids = kids'
          /\ \A n \in NodesOf(kids') : file'.records.recs[n] = SavedRow(n)]_vars

\* a right click on a child changed its parent's status after the handler's
\* own save_all, and the file has the parent's new status
C7_Witness ==
    \E p \in Nodes, n \in Nodes :
        /\ n \in Range(kids[p])
        /\ items[n].steps[COL_STEP_END] = "WIP"
        /\ items[p].steps[COL_STEP_END] = ""
        /\ items[p].steps[COL_STEP_START] = ""
        /\ file.records.recs[p].steps[COL_STEP_END] = ""
        /\ file.records.recs[n].steps[COL_STEP_END] = "WIP"

\* the weekdays in the interval (a, b]
WeekdaysIn(a, b) == Cardinality({ d \in (a + 1)..b : dayOfWeek(d) <= 5 })

\* the end date the spec gives a row that starts on day a and weighs w days
EndAsClaimed(a, w, e) ==
    /\ e = add_workdays(a, w)
    /\ w = 0 => e = a
    /\ w >= 1 => (dayOfWeek(e) <= 5 /\ WeekdaysIn(a, e) = w /\ e - a <= 7 * ((w + 4) \div 5))

\* a step that changes the weight cell or the start date of row n
WeightOrStartChanged(n) ==
    \/ \E t \in WeightTexts : EditWeight(n, t)
    \/ \E d \in 0..MaxDay : ChangeStart(n, d)

\* C9: when the weight cell or the start date of a row is changed and the
\* row's weight text reads as n working days, the row's end date becomes
\* add_workdays(start, n): the start date itself for n = 0, and for n >= 1 a
\* Monday-to-Friday date with exactly n weekdays after the start date up to
\* it; a weight text that does not read as working days leaves the end date
\* as it was.
C9_EndDateFromWeight ==
    [][\A n \in Ids :
          WeightOrStartChanged(n) =>
              LET w == parse_weight_days(items'[n].weight)
              IN  IF w # NoWeight
                  THEN EndAsClaimed(items'[n].start, w, items'[n].end)
                  ELSE items'[n].end = items[n].end]_vars

\* The same for the rows that have their date editors (the rows made by
\* add_root); this holds.
C9_RowsWithDateEditors ==
    [][\A n \in Ids :
          (WeightOrStartChanged(n) /\ HasWidgets(Cur, n)) =>
              LET w == parse_weight_days(items'[n].weight)
              IN  IF w # NoWeight
                  THEN EndAsClaimed(items'[n].start, w, items'[n].end)
                  ELSE items'[n].end = items[n].end]_vars

\* the rows above row n, from its parent up to its top-level row
RECURSIVE Ancestors(_, _)
Ancestors(k, n) ==
    IF ParentOf(k, n) = ROOT THEN {} ELSE {ParentOf(k, n)} \cup Ancestors(k, ParentOf(k, n))

\* In state s row p has, at every step column where one of its children has a
\* status, the aggregation of its children's statuses.  (Where all children
\* are blank the code gives Done and C10 blank; those columns are left out.)
KeepsAggregation(s, p) ==
    \A col \in StepCols :
        LET cs == ChildStatuses(s, p, col)
        IN  (\E i \in 1..Len(cs) : cs[i] # "") => s.items[p].steps[col] = Aggregate(cs)

\* C11: after a right click on a step cell of a row at depth 2 or more, every
\* ancestor of the row (its parent and every row further up) has, at each
\* step column where one of its children has a status, the aggregation of its
\* own children's statuses.
C11_AncestorsAggregated ==
    [][\A n \in Ids, c \in ClickCols :
          (RightClick(n, c) /\ Depth(kids, n) >= 2) =>
              \A p \in Ancestors(kids, n) : KeepsAggregation(CurNext, p)]_vars

\* C12: after add_child on p, after del_item of a child of p that leaves p
\* with other children, and after a drop that moves a row from one parent to
\* another, every row whose child list changed and is not empty has, at each
\* step column where one of its children has a status, the aggregation of its
\* children's statuses.
C12_StructureKeepsAggregation ==
    [][\A p \in Ids :
          (/\ \/ AddChild(p)
              \/ \E n \in Ids : DelItem(n)
              \/ \E n \in Ids, target \in {ROOT} \cup Ids, i \in 1..MaxNodes :
                     Drop(n, target, i)
           /\ kids'[p] # kids[p]
           /\ kids'[p] # <<>>) => KeepsAggregation(CurNext, p)]_vars

\* C13: a left click or a right click on a step cell of a row that has
\* children changes none of that row's step statuses.
C13_ParentStepsReadOnly ==
    [][\A n \in Ids, c \in ClickCols :
          ((LeftClick(n, c) \/ RightClick(n, c)) /\ kids[n] # <<>>) =>
              items'[n].steps = items[n].steps]_vars

\* C14: a right click on step cell c of a row takes that cell one position on
\* in the cycle and gives every earlier step cell of the row the same new
\* status, so that afterwards the steps up to c all hold one status; the
\* later step cells are unchanged; a right click on a cell that is no step
\* cell changes nothing of the tree, the counters or the file.
C14_RightClickFills ==
    [][\A n \in Ids, c \in ClickCols \cup {COL_STEP_START - 1} :
          (used'.clicks # used.clicks /\ RightClick(n, c)) =>
              IF c \in StepCols
              THEN /\ items'[n].steps[c] = Successor(items[n].steps[c])
                   /\ \A d \in StepCols :
                          /\ d < c => items'[n].steps[d] = items'[n].steps[c]
                          /\ d > c => items'[n].steps[d] = items[n].steps[d]
              ELSE CurNext = Cur]_vars

\* one right click on the second step cell of a row: the first two cells are
\* WIP, the third is blank
C14_Witness ==
    \E n \in Nodes :
        /\ items[n].steps[COL_STEP_START] = "WIP"
        /\ items[n].steps[COL_STEP_START + 1] = "WIP"
        /\ items[n].steps[COL_STEP_START + 2] = ""
        /\ used.clicks = 1

\* C15: in every state, so after every add_root, add_child, del_item, drop
\* and reload, the stored level of every row is its depth in the tree, or 9
\* if it is deeper than that, and the text of its Level cell is "L" followed
\* by that number.
C15_LevelIsDepth ==
    \A n \in Nodes :
        LET d == Depth(kids, n)
        IN  /\ items[n].level = IF d < LevelCap THEN d ELSE LevelCap
            /\ items[n].levelTxt = <<"L">> \o Decimal(items[n].level)

\* a row at depth 9, and below it at depth 10 a row made before it, which a
\* drop moved there and which has level 9
C15_Witness ==
    \E n \in Nodes, m \in Nodes :
        /\ Depth(kids, n) = LevelCap
        /\ ParentOf(kids, m) = n
        /\ m < n
        /\ items[m].level = LevelCap
        /\ items[m].levelTxt = <<"L", "9">>
        /\ used.moves = 1

\* C16: Refresh leaves the tree with the same rows under the same parents in
\* the same order, the same column texts (project, level, PIC, weight, start,
\* end, last update, the ten steps), the same levels and case identifiers,
\* the same seq and the same colours.
C16_RefreshRoundTrip ==
    [][Refresh =>
          /\ kids' = kids
          /\ \A n \in Nodes : Values(items'[n]) = Values(items[n])
          /\ seq' = seq
          /\ color_map' = color_map]_vars

\* The same except for the Last Update text, which Refresh may set to the
\* time of the refresh; this holds.
C16_RoundTripButLastUpdate ==
    [][Refresh =>
          /\ kids' = kids
          /\ \A n \in Nodes :
                 [Values(items'[n]) EXCEPT !.updated = 0] = [Values(items[n]) EXCEPT !.updated = 0]
          /\ seq' = seq
          /\ color_map' = color_map]_vars

\* C17: add_child on row p appends exactly one new row as the last child of
\* p and leaves every child list otherwise as it was; the new row has p's
\* project name, p's PIC when that is not empty, level p's level + 1 and ten
\* blank steps; if the project name is not empty, seq grows by one and the
\* new row's case identifier carries the new number; if it is empty, the new
\* row has no case identifier and seq is unchanged.
C17_AddChildMakesOneRow ==
    [][\A p \in Ids :
          AddChild(p) =>
              LET n == created'
                  proj == strip(items[p].proj)
              IN  /\ created' = created + 1
                  /\ kids'[p] = Append(kids[p], n)
                  /\ \A q \in DOMAIN kids : q # p => kids'[q] = kids[q]
                  /\ items'[n].proj = proj
                  /\ strip(items[p].pic) # <<>> => items'[n].pic = strip(items[p].pic)
                  /\ items'[n].level = items[p].level + 1
                  /\ \A c \in StepCols : items'[n].steps[c] = ""
                  /\ proj # <<>> =>
                         /\ seq' = seq + 1
                         /\ items'[n].case = proj \o <<"_", "L">>
                                \o Decimal(items'[n].level) \o <<"_">> \o Pad2(seq')
                  /\ proj = <<>> => (items'[n].case = <<>> /\ seq' = seq)]_vars

\* The same without "seq is unchanged" for an empty project name; this holds
\* while the tree is less than ten levels deep.
C17_ButSeqOfEmptyProject ==
    [][\A p \in Ids :
          AddChild(p) =>
              LET n == created'
                  proj == strip(items[p].proj)
              IN  /\ created' = created + 1
                  /\ kids'[p] = Append(kids[p], n)
                  /\ \A q \in DOMAIN kids : q # p => kids'[q] = kids[q]
                  /\ items'[n].proj = proj
                  /\ strip(items[p].pic) # <<>> => items'[n].pic = strip(items[p].pic)
                  /\ items'[n].level = items[p].level + 1
                  /\ \A c \in StepCols : items'[n].steps[c] = ""
                  /\ proj # <<>> =>
                         /\ seq' = seq + 1
                         /\ items'[n].case = proj \o <<"_", "L">>
                                \o Decimal(items'[n].level) \o <<"_">> \o Pad2(seq')
                  /\ proj = <<>> => items'[n].case = <<>>]_vars

\* C18: del_item on row n removes exactly n and the rows below it: every
\* other row stays under the same parent and in the same order among the
\* rows that stay, with the same project text, level and case identifier,
\* and seq and the colours are unchanged.
C18_DelItemFrame ==
    [][\A n \in Ids :
          DelItem(n) =>
              LET gone == Subtree(kids, n)
              IN  /\ NodesOf(kids') = Nodes \ gone
                  /\ \A p \in DOMAIN kids :
                         p \notin gone =>
                             kids'[p] = SelectSeq(kids[p], LAMBDA x : x \notin gone)
                  /\ \A m \in Nodes \ gone :
                         /\ items'[m].proj = items[m].proj
                         /\ items'[m].level = items[m].level
                         /\ items'[m].levelTxt = items[m].levelTxt
                         /\ items'[m].case = items[m].case
                  /\ seq' = seq
                  /\ color_map' = color_map]_vars

====
